---------------------------- MODULE Spec2Model ----------------------------
(***************************************************************************)
(* The GPS/GSM tracker sketch (src/unnamed/part_000): setup(), setupFONA(),*)
(* the timer-0 interrupt handler and loop(), as a state machine.  One      *)
(* action per statement group of loop(); the clock advances inside the     *)
(* steps that block.  Texts are sequences of one-character strings.  A     *)
(* uint32_t is a pair of 16-bit halves [hi, lo], since the checker's own    *)
(* integers are narrower than 2^32.                                         *)
(***************************************************************************)
EXTENDS Integers, Sequences, FiniteSets, TLC

VARIABLES
  now,            \* the clock: millis(), and how often it has wrapped
  advances,       \* how many steps have let the clock advance
  gpsTimer,       \* uint32_t gpsTimer
  fonaTimer,      \* uint32_t fonaTimer
  beeping,        \* bool beeping
  fonaSetup,      \* bool fonaSetup
  startSMS,       \* int8_t startSMS
  usingInterrupt, \* boolean usingInterrupt
  owner,          \* the SoftwareSerial port that is listening
  recvdflag,      \* GPS.newNMEAreceived()
  lastNMEA,       \* GPS.lastNMEA()
  gpsFix,         \* GPS.fix
  gpsPos,         \* GPS.latitudeDegrees, GPS.longitudeDegrees, GPS.altitude
  simCount,       \* messages held by the modem's store
  curMsg,         \* the stored message the modem holds at index smsnum
  pc,             \* position of loop()
  fix,            \* loop()'s local: bool fix
  coordinates,    \* loop()'s local: char coordinates[30]
  smsnum,         \* loop()'s local: int8_t smsnum
  replybuffer,    \* char replybuffer[161]
  phoneNum,       \* loop()'s local: char phoneNum[21]
  log,            \* device operations of the current pass of loop(), in order
  hist,           \* history: what earlier passes did
  scenario        \* which inputs the environment draws from

vars == <<now, advances, gpsTimer, fonaTimer, beeping, fonaSetup, startSMS,
          usingInterrupt, owner, recvdflag, lastNMEA, gpsFix, gpsPos, simCount,
          curMsg, pc, fix, coordinates, smsnum, replybuffer, phoneNum, log, hist,
          scenario>>

-----------------------------------------------------------------------------
(* Bounds of the model *)

MaxAdvances == 4
MaxSMS == 3
MaxAdvancesClock == 6
MaxSMSClock == 1
MaxAdvancesFetch == 3
MaxSMSFetch == 1
MaxSMSLive == 2

(* Program constants *)

ClockBits == 32
PollPeriod == 2000
ReportPeriod == 300000
BurstPause == 1750
PulseCount == 4
PulseShort == 100
PulseLong == 250
PulseGap == 10
JinglePulse == 100
ErrorPulse == 500
AlarmHz == 4200
JingleHz == 150
ErrorHz == 100
ReplyBufferSize == 161
ReadMaxLen == 250

-----------------------------------------------------------------------------
(* uint32_t arithmetic *)

Half == 2 ^ (ClockBits \div 2)

\* The uint32_t of value n, 0 <= n < 2^31.
U32(n) == [hi |-> n \div Half, lo |-> n % Half]

\* a + b and a - b modulo 2^32
Add32(a, b) ==
  LET lo == a.lo + b.lo
      hi == a.hi + b.hi + (lo \div Half)
  IN [hi |-> hi % Half, lo |-> lo % Half]

Sub32(a, b) ==
  LET lo == a.lo - b.lo
      hi == a.hi - b.hi - (IF lo < 0 THEN 1 ELSE 0)
  IN [hi |-> hi % Half, lo |-> lo % Half]

Gt32(a, b) == a.hi > b.hi \/ (a.hi = b.hi /\ a.lo > b.lo)

Max32 == [hi |-> Half - 1, lo |-> Half - 1]

\* millis()
Millis == now.ms

\* The clock d later: millis() wraps to 0 after 2^32 - 1.
Later(t, d) ==
  LET ms == Add32(t.ms, d)
  IN [era |-> IF Gt32(t.ms, ms) THEN t.era + 1 ELSE t.era, ms |-> ms]

\* The time from t1 to the later t2, Max32 if it is 2^32 ms or more.
Since(t1, t2) ==
  IF t2.era = t1.era \/ (t2.era = t1.era + 1 /\ Gt32(t1.ms, t2.ms))
    THEN Sub32(t2.ms, t1.ms)
    ELSE Max32

Never == [era |-> -1, ms |-> U32(0)]
NoGap == [hi |-> -1, lo |-> -1]

-----------------------------------------------------------------------------
(* Texts *)

UpperCase == <<"A","B","C","D","E","F","G","H","I","J","K","L","M",
               "N","O","P","Q","R","S","T","U","V","W","X","Y","Z">>
LowerCase == <<"a","b","c","d","e","f","g","h","i","j","k","l","m",
               "n","o","p","q","r","s","t","u","v","w","x","y","z">>

ToLowerChar(c) ==
  IF \E i \in 1..26 : UpperCase[i] = c
    THEN LowerCase[CHOOSE i \in 1..26 : UpperCase[i] = c]
    ELSE c

\* Mutant: the text is compared as received.
ToLowerCaseSkipped(s) == s

\* String::toLowerCase()
ToLowerCase(s) == [i \in 1..Len(s) |-> ToLowerChar(s[i])]

KeywordGps == <<"g","p","s">>
KeywordBeep == <<"b","e","e","p">>

MsgNoFix == <<"E","R","R","O","R",":"," ","N","O"," ","G","P","S"," ","F","I","X">>
MsgBeepOff == <<"B","E","E","P","I","N","G"," ","O","F","F">>
MsgBeepOn == <<"B","E","E","P","I","N","G"," ","O","N">>
MsgInvalid == <<"I","N","V","A","L","I","D"," ","C","O","M","M","A","N","D">>
MsgWarnNoFix == <<"W","A","R","N","I","N","G",":"," ","N","O"," ","G","P","S"," ","F","I","X">>
SendTo == <<"+","#","#","#","#","#","#","#","#","#","#","#">>

Digits == <<"0","1","2","3","4","5","6","7","8","9">>

RECURSIVE DigitsOf(_)
DigitsOf(n) == IF n < 10 THEN <<Digits[n + 1]>>
               ELSE DigitsOf(n \div 10) \o <<Digits[(n % 10) + 1]>>

RECURSIVE FracDigits(_, _)
FracDigits(n, prec) == IF prec = 0 THEN <<>>
                       ELSE FracDigits(n \div 10, prec - 1) \o <<Digits[(n % 10) + 1]>>

RECURSIVE Spaces(_)
Spaces(k) == IF k <= 0 THEN <<>> ELSE <<" ">> \o Spaces(k - 1)

Pow10(p) == 10 ^ p

\* dtostrf(val, width, prec, buf): val is given in units of 10^-prec (the
\* value dtostrf rounds the float to); right-justified in width.
Dtostrf(v, width, prec) ==
  LET mag == IF v < 0 THEN 0 - v ELSE v
      body == (IF v < 0 THEN <<"-">> ELSE <<>>)
              \o DigitsOf(mag \div Pow10(prec))
              \o (IF prec > 0 THEN <<".">> \o FracDigits(mag % Pow10(prec), prec) ELSE <<>>)
  IN Spaces(width - Len(body)) \o body

FormatCoordinates(pos) ==
  Dtostrf(pos.lat, 2, 4) \o <<",", " ">> \o Dtostrf(pos.lon, 3, 4)
    \o <<",", " ">> \o Dtostrf(pos.alt, 2, 2)

\* The content of an automatic array that has not been written.
Unwritten == <<"?">>

-----------------------------------------------------------------------------
(* Inputs *)

PosA == [lat |-> 407128, lon |-> -740060, alt |-> 1000]
PosB == [lat |-> -338688, lon |-> 1512093, alt |-> 58250]
PosNone == [lat |-> 0, lon |-> 0, alt |-> 0]

\* NMEA sentences: one that fails the parse, one without a fix, two with.
AllSentences == { [id |-> "bad", ok |-> FALSE, fix |-> FALSE, pos |-> PosNone],
                  [id |-> "nofix", ok |-> TRUE, fix |-> FALSE, pos |-> PosNone],
                  [id |-> "fixA", ok |-> TRUE, fix |-> TRUE, pos |-> PosA],
                  [id |-> "fixB", ok |-> TRUE, fix |-> TRUE, pos |-> PosB] }
NoSentence == [id |-> "none", ok |-> FALSE, fix |-> FALSE, pos |-> PosNone]

PhoneA == <<"+","1","5","5","5","0","1","0","0">>
PhoneB == <<"+","4","4","7","7","0","0","9","0">>

Payloads == { <<"g","p","s">>, <<"G","P","S">>, <<"G","p","s">>,
              <<"b","e","e","p">>, <<"B","e","e","P">>,
              <<"f","o","o">>, <<"g","p","s"," ">>, <<"b","e","e","p","e","r">>,
              <<>> }

AllMessages == [sender : {PhoneA}, payload : Payloads]
                 \cup [sender : {PhoneB}, payload : {<<"g","p","s">>, <<"B","e","e","P">>}]
NoMessage == [sender |-> <<>>, payload |-> <<>>]

\* A text of n characters, and messages up to and beyond the length that
\* fona.readSMS() is told to copy.
LongText(n) == [i \in 1..n |-> "x"]
LongMessages == [sender : {PhoneA},
                 payload : {<<"b","e","e","p">>, LongText(ReplyBufferSize - 1),
                            LongText(ReplyBufferSize + 1), LongText(ReadMaxLen + 1)}]

JingleMs == PulseCount * JinglePulse
BurstMs == BurstPause + (PulseCount - 1) * (PulseShort + PulseGap) + PulseLong + PulseGap

\* Four sets of inputs.  "commands": every sentence and every message, few
\* clock values.  "clock": one sentence and one message, and the clock values
\* around a period's end and around the wrap of millis().  "fetch": messages
\* up to and beyond the sizes of the fetch.  "live": a clock that runs
\* without end, a sentence that parses and one that does not, "beep" messages.
Scenarios == {"commands", "clock", "fetch", "live"}

Sentences ==
  IF scenario = "clock" THEN {s \in AllSentences : s.id = "fixA"}
  ELSE IF scenario = "live" THEN {s \in AllSentences : s.id \in {"fixA", "bad"}}
  ELSE AllSentences

Messages ==
  IF scenario = "clock" THEN {[sender |-> PhoneA, payload |-> <<"f","o","o">>]}
  ELSE IF scenario = "fetch" THEN LongMessages
  ELSE IF scenario = "live" THEN {[sender |-> PhoneA, payload |-> <<"b","e","e","p">>]}
  ELSE AllMessages

StoreLimit ==
  IF scenario = "clock" THEN MaxSMSClock
  ELSE IF scenario = "fetch" THEN MaxSMSFetch
  ELSE IF scenario = "live" THEN MaxSMSLive
  ELSE MaxSMS
AdvanceLimit ==
  IF scenario = "clock" THEN MaxAdvancesClock
  ELSE IF scenario = "fetch" THEN MaxAdvancesFetch
  ELSE MaxAdvances

\* millis() when the first pass of loop() that matters starts: at boot, or
\* after 2^32 - 2401 ms in which no sentence came.
StartTimes ==
  IF scenario = "clock"
    THEN {U32(0), Sub32(U32(0), U32(JingleMs + PollPeriod + 1))}
    ELSE {U32(0)}

\* How long the steps that block may take, in milliseconds: the time from
\* the end of a pass to the next one's wraparound checks, the Serial prints
\* after the checks, and fona.getNumSMS().
\* In the scenario "live" the clock runs without end.  A pass with an alarm
\* burst ends on a quarter of the clock's range, a pass without one starts
\* on a quarter, so that millis() wraps in every fourth pass that takes time.
LiveStride == 2 ^ (ClockBits - 2)

\* The first quarter of the clock's range after t.
NextQuarter(t) ==
  [hi |-> (((t.hi \div (LiveStride \div Half)) + 1) * (LiveStride \div Half)) % Half,
   lo |-> 0]

LiveDelays ==
  LET toQuarter == Sub32(NextQuarter(Millis), Millis)
  IN IF beeping
       THEN {IF Gt32(U32(BurstMs), toQuarter)
               THEN Sub32(Add32(toQuarter, U32(LiveStride)), U32(BurstMs))
               ELSE Sub32(toQuarter, U32(BurstMs))}
       ELSE {toQuarter} \cup (IF toQuarter = U32(LiveStride) THEN {U32(0)} ELSE {})

PassDelays ==
  IF scenario = "clock" THEN {U32(0), U32(PollPeriod), U32(ReportPeriod)}
  ELSE IF scenario = "live" THEN LiveDelays
  ELSE {U32(0), U32(ReportPeriod + 1)}
PrintDelays == IF scenario = "clock" THEN {U32(0), U32(1)} ELSE {U32(0)}
ModemWaits == IF scenario = "clock" THEN {U32(0), U32(ReportPeriod + 1)} ELSE {U32(0)}

-----------------------------------------------------------------------------
(* State after the static initializers and setup() *)

\* everFix: some pass has read GPS.fix as true; setupCalls: calls of
\* setupFONA(); beeps: "beep" commands handled; reportAt, pollAt: when the
\* timer last fired; reportGap, pollGap: the time between its last two fires;
\* wrapAt, fired: when this pass's wrap check reset the timer, and whether
\* the timer fired in this pass; interpreted: the store indexes of the
\* messages whose text reached the command branches.
Hist0 == [everFix |-> FALSE, setupCalls |-> 0, beeps |-> 0, interpreted |-> {},
          reportAt |-> Never, reportGap |-> NoGap, pollAt |-> Never, pollGap |-> NoGap,
          wrapAt |-> [gps |-> Never, fona |-> Never],
          fired |-> [gps |-> FALSE, fona |-> FALSE]]

InitIn(sc) ==
  /\ scenario = sc
  /\ now \in {[era |-> 0, ms |-> t] : t \in StartTimes}
  /\ advances = 0
  /\ gpsTimer = U32(0)
  /\ fonaTimer = U32(0)
  /\ beeping = FALSE
  /\ fonaSetup = FALSE
  /\ startSMS = 0
  /\ usingInterrupt = TRUE
  /\ owner = "Sensor"
  /\ recvdflag = FALSE
  /\ lastNMEA = NoSentence
  /\ gpsFix = FALSE
  /\ gpsPos = PosNone
  /\ simCount \in 0..StoreLimit
  /\ curMsg = NoMessage
  /\ pc = "listen"
  /\ fix = FALSE
  /\ coordinates = Unwritten
  /\ smsnum = 0
  /\ replybuffer = <<>>
  /\ phoneNum = <<>>
  /\ log = <<>>
  /\ hist = Hist0

Init == InitIn("commands")

InitClock == InitIn("clock")

InitFetch == InitIn("fetch")

InitLive == InitIn("live")

-----------------------------------------------------------------------------
(* Helpers of the actions *)

\* One device operation, with the port that was listening when it ran.
Op(name, who, arg) == [op |-> name, owner |-> who, arg |-> arg]

\* The time a history field records; the scenario "live" keeps no times.
Stamp(t) == IF scenario = "live" THEN Never ELSE t

\* The clock advances by one of ds while a step blocks.  In the scenario
\* "live" the advances are not counted, and of the time only millis() is kept.
Elapse(ds) ==
  \E d \in ds :
    IF scenario = "live"
      THEN /\ now' = [era |-> 0, ms |-> Later(now, d).ms]
           /\ advances' = advances
      ELSE /\ d = U32(0) \/ advances < AdvanceLimit
           /\ now' = Later(now, d)
           /\ advances' = IF d = U32(0) THEN advances ELSE advances + 1

NoElapse == UNCHANGED <<now, advances>>

\* gpsSS.listen() and fonaSS.listen(): the port that listens afterwards.
\* Mutant: gpsSS.listen() leaves the listening port as it is.
GpsListenSkipped == owner

GpsListen == "Sensor"

\* Mutant: fonaSS.listen() and fonaSS.begin() leave the listening port as it is.
FonaListenSkipped == owner

FonaListen == "Modem"

\* Mutant: the poll and report blocks do not test fonaSetup.
ModemReadyAlways == TRUE

\* if (fonaSetup) { the poll block; the report block }
ModemReady == fonaSetup

\* Mutant: the report block comes before the poll block.
FollowsReportFirst(block) ==
  CASE block = "coordinates" -> "report"
    [] block = "report" -> "gate"
    [] block = "poll" -> "alarm"
    [] block = "alarm" -> "listen"

\* The order of the blocks of loop() after the coordinates are recorded.
Follows(block) ==
  CASE block = "coordinates" -> "gate"
    [] block = "poll" -> "report"
    [] block = "report" -> "alarm"
    [] block = "alarm" -> "listen"

\* What fona.readSMS(i, buffer, maxlen, ...) copies of a message's text.
Truncate(text, maxlen) == IF Len(text) > maxlen THEN SubSeq(text, 1, maxlen) ELSE text

\* The copy and the 0 that ends it fit in char replybuffer[161].
FitsReplyBuffer(text) == Len(text) + 1 <= ReplyBufferSize

\* Mutant: a failed send undoes the assignment made before it.
AfterSendUndoes(sent, new, old) == IF sent THEN new ELSE old

\* if (fona.sendSMS(...)) {Serial.println("SMS sent");}
\* else {Serial.println("SMS failed");}: a value assigned before the send is
\* the same after either branch.
AfterSend(sent, new, old) == new

\* Mutant: loop() goes on after a failed parse.
AfterParseContinues(ok) == "wrap"

\* if (!GPS.parse(GPS.lastNMEA())) return;
AfterParse(ok) == IF ok THEN "wrap" ELSE "listen"

\* Mutant: a count equal to the baseline passes for a new message.
NewMessageOrSame(count, baseline) == count >= baseline

\* if (smsnum > startSMS)
NewMessage(count, baseline) == count > baseline

\* Mutant: setupFONA() returns after the error pulses.
AfterBeginFailsReturns == "format"

\* while(1); after the error pulses of setupFONA()
AfterBeginFails == "halt"

\* Mutant: the burst is played in every pass.
AlarmDueAlways == TRUE

\* if (beeping) { ... }
AlarmDue == beeping

\* Mutant: the timer restarts in every pass.
WrapResetAlways(timer, m) == m

\* Mutant: a wrapped timer restarts from 0 instead of from millis().
WrapResetToZero(timer, m) == IF Gt32(timer, m) THEN U32(0) ELSE timer

\* if (timer > millis()) timer = millis();
WrapReset(timer, m) == IF Gt32(timer, m) THEN m ELSE timer

\* Mutant: due from the period's last millisecond on.
TimerDueAtPeriod(m, timer, period) == ~Gt32(U32(period), Sub32(m, timer))

\* Mutant: the deadline timer + period is computed first, and overflows.
TimerDueBySum(m, timer, period) == Gt32(m, Add32(timer, U32(period)))

\* millis() - timer > period
TimerDue(m, timer, period) == Gt32(Sub32(m, timer), U32(period))

\* Mutant: the "beep" reply names the state before the toggle.
ReplyNamesOldState(analyze, fixNow, coords, beep) ==
  IF analyze = KeywordGps
    THEN [text |-> IF fixNow THEN coords ELSE MsgNoFix, beeping |-> beep]
  ELSE IF analyze = KeywordBeep
    THEN IF beep THEN [text |-> MsgBeepOn, beeping |-> FALSE]
                 ELSE [text |-> MsgBeepOff, beeping |-> TRUE]
  ELSE [text |-> MsgInvalid, beeping |-> beep]

\* Mutant: an unrecognized command silences the alarm.
ReplyInvalidSilences(analyze, fixNow, coords, beep) ==
  IF analyze = KeywordGps
    THEN [text |-> IF fixNow THEN coords ELSE MsgNoFix, beeping |-> beep]
  ELSE IF analyze = KeywordBeep
    THEN IF beep THEN [text |-> MsgBeepOff, beeping |-> FALSE]
                 ELSE [text |-> MsgBeepOn, beeping |-> TRUE]
  ELSE [text |-> MsgInvalid, beeping |-> FALSE]

\* Mutant: the "gps" branch sends the coordinates buffer without testing fix.
ReplySendsBuffer(analyze, fixNow, coords, beep) ==
  IF analyze = KeywordGps
    THEN [text |-> coords, beeping |-> beep]
  ELSE IF analyze = KeywordBeep
    THEN IF beep THEN [text |-> MsgBeepOff, beeping |-> FALSE]
                 ELSE [text |-> MsgBeepOn, beeping |-> TRUE]
  ELSE [text |-> MsgInvalid, beeping |-> beep]

\* The reply of the command branch, and the value of beeping after it.
Reply(analyze, fixNow, coords, beep) ==
  IF analyze = KeywordGps
    THEN [text |-> IF fixNow THEN coords ELSE MsgNoFix, beeping |-> beep]
  ELSE IF analyze = KeywordBeep
    THEN IF beep THEN [text |-> MsgBeepOff, beeping |-> FALSE]
                 ELSE [text |-> MsgBeepOn, beeping |-> TRUE]
  ELSE [text |-> MsgInvalid, beeping |-> beep]

-----------------------------------------------------------------------------
(* The timer-0 compare interrupt and the network *)

\* Mutant: the handler parses the sentence it has received.
InterruptParses ==
  /\ \E s \in Sentences \cup {NoSentence} :
       IF owner = "Sensor" /\ s # NoSentence
         THEN /\ recvdflag' = FALSE /\ lastNMEA' = NoSentence
              /\ IF s.ok THEN gpsFix' = s.fix /\ gpsPos' = s.pos
                         ELSE UNCHANGED <<gpsFix, gpsPos>>
         ELSE UNCHANGED <<recvdflag, lastNMEA, gpsFix, gpsPos>>
  /\ UNCHANGED <<now, advances, gpsTimer, fonaTimer, beeping, fonaSetup, startSMS,
                 usingInterrupt, owner, simCount, curMsg, pc, fix,
                 coordinates, smsnum, replybuffer, phoneNum, log, hist, scenario>>

\* SIGNAL(TIMER0_COMPA_vect): GPS.read() takes a byte from gpsSS, which has
\* one only while gpsSS is the listening port; the byte may end a sentence.
Interrupt ==
  /\ \E s \in Sentences \cup {NoSentence} :
       IF owner = "Sensor" /\ s # NoSentence
         THEN recvdflag' = TRUE /\ lastNMEA' = s
         ELSE UNCHANGED <<recvdflag, lastNMEA>>
  /\ UNCHANGED <<now, advances, gpsTimer, fonaTimer, beeping, fonaSetup, startSMS,
                 usingInterrupt, owner, gpsFix, gpsPos, simCount, curMsg, pc, fix,
                 coordinates, smsnum, replybuffer, phoneNum, log, hist, scenario>>

\* A text message reaches the modem's store.
SmsArrives ==
  /\ simCount < StoreLimit
  /\ simCount' = simCount + 1
  /\ UNCHANGED <<now, advances, gpsTimer, fonaTimer, beeping, fonaSetup, startSMS,
                 usingInterrupt, owner, recvdflag, lastNMEA, gpsFix, gpsPos, curMsg,
                 pc, fix, coordinates, smsnum, replybuffer, phoneNum, log, hist,
                 scenario>>

-----------------------------------------------------------------------------
(* loop() *)

\* gpsSS.listen(), and the hand query of the GPS when the interrupt is off.
Listen ==
  /\ pc = "listen"
  /\ Elapse(PassDelays)
  /\ owner' = GpsListen
  /\ log' = <<Op("gpsSS.listen", owner', <<>>)>>
             \o (IF usingInterrupt THEN <<>> ELSE <<Op("GPS.read", owner', <<>>)>>)
  /\ fix' = FALSE
  /\ coordinates' = Unwritten
  /\ smsnum' = 0
  /\ phoneNum' = <<>>
  /\ hist' = [hist EXCEPT !.wrapAt = [gps |-> Never, fona |-> Never],
                          !.fired = [gps |-> FALSE, fona |-> FALSE]]
  /\ curMsg' = NoMessage
  /\ pc' = "nmea"
  /\ UNCHANGED <<gpsTimer, fonaTimer, beeping, fonaSetup, startSMS, usingInterrupt,
                 recvdflag, lastNMEA, gpsFix, gpsPos, simCount, replybuffer, scenario>>

\* if (GPS.newNMEAreceived()) { if (!GPS.parse(GPS.lastNMEA())) return; }
ParseSentence ==
  /\ pc = "nmea"
  /\ IF recvdflag
       THEN /\ recvdflag' = FALSE
            /\ lastNMEA' = NoSentence
            /\ log' = Append(log, Op("GPS.parse", owner, <<lastNMEA.id>>))
            /\ pc' = AfterParse(lastNMEA.ok)
            /\ IF lastNMEA.ok
                 THEN gpsFix' = lastNMEA.fix /\ gpsPos' = lastNMEA.pos
                 ELSE UNCHANGED <<gpsFix, gpsPos>>
       ELSE UNCHANGED <<recvdflag, lastNMEA, log, gpsFix, gpsPos>> /\ pc' = "wrap"
  /\ NoElapse
  /\ UNCHANGED <<gpsTimer, fonaTimer, beeping, fonaSetup, startSMS, usingInterrupt,
                 owner, simCount, curMsg, fix, coordinates, smsnum,
                 replybuffer, phoneNum, hist, scenario>>

\* The two wraparound checks.
WrapCheck ==
  /\ pc = "wrap"
  /\ gpsTimer' = WrapReset(gpsTimer, Millis)
  /\ fonaTimer' = WrapReset(fonaTimer, Millis)
  /\ hist' = [hist EXCEPT !.wrapAt = [gps |-> IF gpsTimer' # gpsTimer THEN now ELSE Never,
                                      fona |-> IF fonaTimer' # fonaTimer THEN now ELSE Never]]
  /\ pc' = "fix"
  /\ NoElapse
  /\ UNCHANGED <<beeping, fonaSetup, startSMS, usingInterrupt, owner, recvdflag,
                 lastNMEA, gpsFix, gpsPos, simCount, curMsg, fix, coordinates, smsnum,
                 replybuffer, phoneNum, log, scenario>>

\* The Serial prints; bool fix = GPS.fix; if (fix) { if (!fonaSetup) setupFONA(); ...
ReadFix ==
  /\ pc = "fix"
  /\ fix' = gpsFix
  /\ hist' = [hist EXCEPT !.everFix = @ \/ gpsFix]
  /\ pc' = IF gpsFix THEN (IF fonaSetup THEN "format" ELSE "setup")
           ELSE Follows("coordinates")
  /\ Elapse(PrintDelays)
  /\ UNCHANGED <<gpsTimer, fonaTimer, beeping, fonaSetup, startSMS, usingInterrupt,
                 owner, recvdflag, lastNMEA, gpsFix, gpsPos, simCount, curMsg,
                 coordinates, smsnum, replybuffer, phoneNum, log, scenario>>

\* setupFONA(): the modem is found, or it is not and the sketch stops.
SetupFONA ==
  /\ pc = "setup"
  /\ owner' = FonaListen
  /\ hist' = [hist EXCEPT !.setupCalls = @ + 1]
  /\ \E found \in BOOLEAN :
       IF found
         THEN /\ Elapse({U32(JingleMs)})
              /\ startSMS' = simCount
              /\ fonaSetup' = TRUE
              /\ log' = log \o <<Op("fonaSS.begin", owner', <<>>),
                                  Op("fona.begin", owner', <<TRUE>>),
                                  Op("fona.getNumSMS", owner', <<simCount>>),
                                  Op("tone", owner', <<JingleHz, PulseCount>>)>>
              /\ pc' = "format"
         ELSE /\ Elapse({U32(PulseCount * (ErrorPulse + ErrorPulse))})
              /\ UNCHANGED <<startSMS, fonaSetup>>
              /\ log' = log \o <<Op("fonaSS.begin", owner', <<>>),
                                  Op("fona.begin", owner', <<FALSE>>),
                                  Op("tone", owner', <<ErrorHz, PulseCount>>)>>
              /\ pc' = AfterBeginFails
  /\ UNCHANGED <<gpsTimer, fonaTimer, beeping, usingInterrupt, recvdflag, lastNMEA,
                 gpsFix, gpsPos, simCount, curMsg, fix, coordinates, smsnum,
                 replybuffer, phoneNum, scenario>>

\* while(1);
Halted ==
  /\ pc = "halt"
  /\ UNCHANGED vars

\* The three dtostrf calls and data.toCharArray(coordinates, ...).
Format ==
  /\ pc = "format"
  /\ coordinates' = FormatCoordinates(gpsPos)
  /\ pc' = Follows("coordinates")
  /\ NoElapse
  /\ UNCHANGED <<gpsTimer, fonaTimer, beeping, fonaSetup, startSMS, usingInterrupt,
                 owner, recvdflag, lastNMEA, gpsFix, gpsPos, simCount, curMsg, fix,
                 smsnum, replybuffer, phoneNum, log, hist, scenario>>

\* if (fonaSetup) { if (millis() - fonaTimer > 2000) { fonaTimer = millis();
\* fonaSS.listen(); ...   (the one test of fonaSetup guards this block and
\* the report block; fonaSetup does not change between the two)
PollGate ==
  /\ pc = "gate"
  /\ IF ~ModemReady
       THEN /\ pc' = Follows("poll")
            /\ UNCHANGED <<fonaTimer, owner, log, hist>>
       ELSE IF TimerDue(Millis, fonaTimer, PollPeriod)
         THEN /\ fonaTimer' = Millis
              /\ owner' = FonaListen
              /\ log' = Append(log, Op("fonaSS.listen", owner', <<>>))
              /\ hist' = [hist EXCEPT !.pollAt = Stamp(now),
                                      !.pollGap = IF hist.pollAt = Never THEN NoGap
                                                  ELSE Since(hist.pollAt, now),
                                      !.fired.fona = TRUE]
              /\ pc' = "count"
         ELSE /\ pc' = Follows("poll")
              /\ UNCHANGED <<fonaTimer, owner, log, hist>>
  /\ NoElapse
  /\ UNCHANGED <<gpsTimer, beeping, fonaSetup, startSMS, usingInterrupt, recvdflag,
                 lastNMEA, gpsFix, gpsPos, simCount, curMsg, fix, coordinates, smsnum,
                 replybuffer, phoneNum, scenario>>

\* int8_t smsnum = fona.getNumSMS(); if (smsnum > startSMS) ...
CountSMS ==
  /\ pc = "count"
  /\ smsnum' = simCount
  /\ log' = Append(log, Op("fona.getNumSMS", owner, <<simCount>>))
  /\ pc' = IF NewMessage(simCount, startSMS) THEN "baseline" ELSE Follows("poll")
  /\ Elapse(ModemWaits)
  /\ UNCHANGED <<gpsTimer, fonaTimer, beeping, fonaSetup, startSMS, usingInterrupt,
                 owner, recvdflag, lastNMEA, gpsFix, gpsPos, simCount, curMsg, fix,
                 coordinates, replybuffer, phoneNum, hist, scenario>>

\* startSMS = fona.getNumSMS();
SetBaseline ==
  /\ pc = "baseline"
  /\ startSMS' = simCount
  /\ log' = Append(log, Op("fona.getNumSMS", owner, <<simCount>>))
  /\ pc' = "read"
  /\ NoElapse
  /\ UNCHANGED <<gpsTimer, fonaTimer, beeping, fonaSetup, usingInterrupt, owner,
                 recvdflag, lastNMEA, gpsFix, gpsPos, simCount, curMsg, fix,
                 coordinates, smsnum, replybuffer, phoneNum, hist, scenario>>

\* if (fona.readSMS(smsnum, replybuffer, 250, &smslen)) ...  A copy longer
\* than replybuffer runs over the globals declared after it (beeping,
\* fonaSetup, startSMS), which then hold any value.
ReadSMS ==
  /\ pc = "read"
  /\ \E ok \in BOOLEAN :
       /\ log' = Append(log, Op("fona.readSMS", owner, <<smsnum, ok>>))
       /\ IF ok
            THEN \E m \in Messages :
                   /\ curMsg' = m
                   /\ replybuffer' = Truncate(m.payload, ReadMaxLen)
                   /\ IF FitsReplyBuffer(replybuffer')
                        THEN UNCHANGED <<beeping, fonaSetup, startSMS>>
                        ELSE /\ beeping' \in BOOLEAN
                             /\ fonaSetup' \in BOOLEAN
                             /\ startSMS' \in 0..StoreLimit
                   /\ pc' = "sender"
            ELSE /\ UNCHANGED <<curMsg, replybuffer, beeping, fonaSetup, startSMS>>
                 /\ pc' = Follows("poll")
  /\ NoElapse
  /\ UNCHANGED <<gpsTimer, fonaTimer, usingInterrupt,
                 owner, recvdflag, lastNMEA, gpsFix, gpsPos, simCount, fix, coordinates,
                 smsnum, phoneNum, hist, scenario>>

\* if (fona.getSMSSender(smsnum, phoneNum, 21)) ...
GetSender ==
  /\ pc = "sender"
  /\ \E ok \in BOOLEAN :
       /\ log' = Append(log, Op("fona.getSMSSender", owner, <<smsnum, ok>>))
       /\ IF ok
            THEN phoneNum' = curMsg.sender /\ pc' = "command"
            ELSE UNCHANGED phoneNum /\ pc' = Follows("poll")
  /\ NoElapse
  /\ UNCHANGED <<gpsTimer, fonaTimer, beeping, fonaSetup, startSMS, usingInterrupt,
                 owner, recvdflag, lastNMEA, gpsFix, gpsPos, simCount, curMsg, fix,
                 coordinates, smsnum, replybuffer, hist, scenario>>

\* analyze.toLowerCase(); the three branches, each with its fona.sendSMS.
Command ==
  /\ pc = "command"
  /\ LET analyze == ToLowerCase(replybuffer)
          r == Reply(analyze, fix, coordinates, beeping)
     IN /\ hist' = [hist EXCEPT !.beeps = IF analyze = KeywordBeep THEN @ + 1 ELSE @,
                                !.interpreted = @ \cup {smsnum}]
        /\ \E sent \in BOOLEAN :
             /\ beeping' = AfterSend(sent, r.beeping, beeping)
             /\ log' = Append(log, Op("fona.sendSMS", owner, <<phoneNum, r.text, sent>>))
  /\ pc' = Follows("poll")
  /\ NoElapse
  /\ UNCHANGED <<gpsTimer, fonaTimer, fonaSetup, startSMS, usingInterrupt, owner,
                 recvdflag, lastNMEA, gpsFix, gpsPos, simCount, curMsg, fix, coordinates,
                 smsnum, replybuffer, phoneNum, scenario>>

\* if (millis() - gpsTimer > 300000) { gpsTimer = millis(); fonaSS.listen(); ...
Report ==
  /\ pc = "report"
  /\ IF ModemReady /\ TimerDue(Millis, gpsTimer, ReportPeriod)
       THEN /\ owner' = FonaListen
            /\ hist' = [hist EXCEPT !.reportAt = Stamp(now),
                                    !.reportGap = IF hist.reportAt = Never THEN NoGap
                                                  ELSE Since(hist.reportAt, now),
                                    !.fired.gps = TRUE]
            /\ \E sent \in BOOLEAN :
                 /\ gpsTimer' = AfterSend(sent, Millis, gpsTimer)
                 /\ log' = log \o <<Op("fonaSS.listen", owner', <<>>),
                                    Op("fona.sendSMS", owner',
                                       <<SendTo, IF fix THEN coordinates ELSE MsgWarnNoFix,
                                         sent>>)>>
       ELSE UNCHANGED <<gpsTimer, owner, hist, log>>
  /\ pc' = Follows("report")
  /\ NoElapse
  /\ UNCHANGED <<fonaTimer, beeping, fonaSetup, startSMS, usingInterrupt, recvdflag,
                 lastNMEA, gpsFix, gpsPos, simCount, curMsg, fix, coordinates, smsnum,
                 replybuffer, phoneNum, scenario>>

\* if (beeping) { delay(1750); four tone pulses }
Alarm ==
  /\ pc = "alarm"
  /\ IF AlarmDue
       THEN /\ Elapse({U32(BurstMs)})
            /\ log' = Append(log, Op("tone", owner, <<AlarmHz, PulseCount>>))
       ELSE NoElapse /\ UNCHANGED log
  /\ pc' = Follows("alarm")
  /\ UNCHANGED <<gpsTimer, fonaTimer, beeping, fonaSetup, startSMS, usingInterrupt,
                 owner, recvdflag, lastNMEA, gpsFix, gpsPos, simCount, curMsg, fix,
                 coordinates, smsnum, replybuffer, phoneNum, hist, scenario>>

Next ==
  \/ Interrupt
  \/ SmsArrives
  \/ Listen
  \/ ParseSentence
  \/ WrapCheck
  \/ ReadFix
  \/ SetupFONA
  \/ Halted
  \/ Format
  \/ PollGate
  \/ CountSMS
  \/ SetBaseline
  \/ ReadSMS
  \/ GetSender
  \/ Command
  \/ Report
  \/ Alarm

Spec == Init /\ [][Next]_vars

SpecClock == InitClock /\ [][Next]_vars

SpecFetch == InitFetch /\ [][Next]_vars

\* A step of loop() or of setupFONA(): every call returns, so the sketch
\* goes on unless it is in while(1).
LoopStep ==
  \/ Listen \/ ParseSentence \/ WrapCheck \/ ReadFix \/ SetupFONA \/ Format \/ PollGate
  \/ CountSMS \/ SetBaseline \/ ReadSMS \/ GetSender \/ Command \/ Report \/ Alarm

\* The sketch keeps running, and again and again time passes between two
\* passes and a pass gets past the parse.
SpecLive ==
  /\ InitLive /\ [][Next]_vars
  /\ WF_vars(LoopStep)
  /\ []<><<Listen /\ now' # now>>_vars
  /\ []<><<ParseSentence /\ pc' = "wrap">>_vars

-----------------------------------------------------------------------------
(* Properties *)

SendsIn(l) == SelectSeq(l, LAMBDA e : e.op = "fona.sendSMS")

\* A successful fona.getSMSSender in l: a message and its sender were fetched.
Fetched(l) == \E i \in 1..Len(l) : l[i].op = "fona.getSMSSender" /\ l[i].arg[2]

CasePairs == {<<"g","G">>, <<"p","P">>, <<"s","S">>, <<"b","B">>, <<"e","E">>}

\* p is the keyword kw, letter case apart.
IsKeyword(p, kw) ==
  /\ Len(p) = Len(kw)
  /\ \A i \in 1..Len(kw) : p[i] = kw[i] \/ <<kw[i], p[i]>> \in CasePairs

TextA == <<"4","0",".","7","1","2","8",","," ","-","7","4",".","0","0","6","0",
           ","," ","1","0",".","0","0">>
TextB == <<"-","3","3",".","8","6","8","8",","," ","1","5","1",".","2","0","9","3",
           ","," ","5","8","2",".","5","0">>

TextOf(pos) == IF pos = PosA THEN TextA ELSE IF pos = PosB THEN TextB ELSE <<>>

\* The texts the command p may be answered with when GPS.fix read as v.
Answers(p, v, pos) ==
  IF IsKeyword(p, <<"g","p","s">>) THEN {IF v THEN TextOf(pos) ELSE MsgNoFix}
  ELSE IF IsKeyword(p, <<"b","e","e","p">>) THEN {MsgBeepOn, MsgBeepOff}
  ELSE {MsgInvalid}

\* C1: when the poll block has fetched a message and its sender, it has sent
\* exactly one SMS, to that sender, and the text is the one the payload
\* selects by exact match, letter case apart: the coordinates or the no-fix
\* text for "gps", a beeping text for "beep", the invalid-command text for
\* anything else.
C1_OneReplyToSender ==
  (pc = "report" /\ Fetched(log)) =>
    LET sends == SendsIn(log)
    IN /\ Len(sends) = 1
       /\ sends[1].arg[1] = curMsg.sender
       /\ sends[1].arg[2] \in Answers(curMsg.payload, fix, gpsPos)
       /\ log[Len(log)] = sends[1]

C1_Witness ==
  /\ pc = "report" /\ Fetched(log)
  /\ curMsg = [sender |-> PhoneB, payload |-> <<"g","p","s">>]
  /\ fix
  /\ SendsIn(log) = <<Op("fona.sendSMS", "Modem", <<PhoneB, TextA, TRUE>>)>>

\* C2: a "beep" command flips beeping and its reply names the new value, so
\* beeping is on exactly after an odd number of "beep" commands.
C2_BeepToggles ==
  /\ [](beeping <=> (hist.beeps % 2 = 1))
  /\ [][(pc = "command" /\ pc' # pc /\ IsKeyword(replybuffer, <<"b","e","e","p">>)) =>
          /\ beeping' = ~beeping
          /\ hist'.beeps = hist.beeps + 1
          /\ log'[Len(log')].op = "fona.sendSMS"
          /\ log'[Len(log')].arg[2] = (IF beeping' THEN MsgBeepOn ELSE MsgBeepOff)]_vars

C2_Witness ==
  /\ hist.beeps = 2 /\ ~beeping
  /\ pc = "report" /\ Fetched(log)
  /\ log[Len(log)].arg[2] = MsgBeepOff

\* C3: beeping changes only in the command step of a payload that is "beep",
\* letter case apart.
C3_OnlyBeepChangesAlarm ==
  [][beeping' # beeping =>
       pc = "command" /\ IsKeyword(replybuffer, <<"b","e","e","p">>)]_vars

C3_Witness ==
  /\ beeping /\ hist.beeps = 1
  /\ pc = "report" /\ Fetched(log)
  /\ curMsg.payload = <<"f","o","o">>
  /\ log[Len(log)].arg[2] = MsgInvalid

\* The time from timer to m on the 32-bit clock: (m - timer) mod 2^32.
Elapsed(m, timer) == Sub32(m, timer)

AtLeast(a, b) == ~Gt32(b, a)

\* C4 as claimed: a timer is due exactly when now - lastFired >= period.
C4_DueFromPeriod ==
  [][/\ (pc = "report" /\ pc' # pc /\ fonaSetup) =>
          (hist'.fired.gps <=> AtLeast(Elapsed(Millis, gpsTimer), U32(ReportPeriod)))
     /\ (pc = "gate" /\ pc' # pc /\ fonaSetup) =>
          (hist'.fired.fona <=> AtLeast(Elapsed(Millis, fonaTimer), U32(PollPeriod)))]_vars

\* C4, amended: a timer is due exactly when now - lastFired > period; a due
\* timer takes lastFired = now and sends or polls, so that it is not due
\* again at that clock value; a timer that is not due keeps lastFired.
C4_DueAfterPeriod ==
  [][/\ (pc = "report" /\ pc' # pc /\ fonaSetup) =>
          LET due == Gt32(Elapsed(Millis, gpsTimer), U32(ReportPeriod))
          IN /\ hist'.fired.gps <=> due
             /\ Len(SendsIn(log')) > Len(SendsIn(log)) <=> due
             /\ gpsTimer' = IF due THEN Millis ELSE gpsTimer
             /\ ~Gt32(Elapsed(Millis', gpsTimer'), U32(ReportPeriod))
     /\ (pc = "gate" /\ pc' # pc /\ fonaSetup) =>
          LET due == Gt32(Elapsed(Millis, fonaTimer), U32(PollPeriod))
          IN /\ hist'.fired.fona <=> due
             /\ pc' = "count" <=> due
             /\ fonaTimer' = IF due THEN Millis ELSE fonaTimer
             /\ ~Gt32(Elapsed(Millis', fonaTimer'), U32(PollPeriod))]_vars

\* The report timer was evaluated exactly one period after lastFired and
\* did not fire.
C4_Witness ==
  /\ pc = "alarm" /\ fonaSetup
  /\ ~hist.fired.gps
  /\ Elapsed(Millis, gpsTimer) = U32(ReportPeriod)

\* C5 as claimed: a timer that the wraparound check of a pass has reset does
\* not fire in that pass.
C5_NoFireInPassOfReset ==
  /\ hist.wrapAt.gps # Never => ~hist.fired.gps
  /\ hist.wrapAt.fona # Never => ~hist.fired.fona

\* C5, amended: the wraparound check sets a timer that is ahead of millis()
\* to millis() and leaves any other timer alone; a timer reset so fires in
\* the same pass only when more than its period has passed since the reset.
C5_ResetThenFullPeriod ==
  /\ [](/\ (hist.wrapAt.gps # Never /\ hist.fired.gps) =>
             Gt32(Since(hist.wrapAt.gps, hist.reportAt), U32(ReportPeriod))
        /\ (hist.wrapAt.fona # Never /\ hist.fired.fona) =>
             Gt32(Since(hist.wrapAt.fona, hist.pollAt), U32(PollPeriod)))
  /\ [][(pc = "wrap" /\ pc' # pc) =>
          /\ gpsTimer' = IF Gt32(gpsTimer, Millis) THEN Millis ELSE gpsTimer
          /\ fonaTimer' = IF Gt32(fonaTimer, Millis) THEN Millis ELSE fonaTimer
          /\ (hist'.wrapAt.gps # Never) <=> Gt32(gpsTimer, Millis)
          /\ (hist'.wrapAt.fona # Never) <=> Gt32(fonaTimer, Millis)]_vars

\* The wraparound check reset both timers to millis(), after the wrap.
C5_Witness ==
  /\ pc = "fix"
  /\ now.era = 1
  /\ hist.wrapAt.gps = now /\ hist.wrapAt.fona = now
  /\ gpsTimer = Millis /\ fonaTimer = Millis

\* C6: two consecutive fires of a timer are at least its period apart.
C6_FiresAPeriodApart ==
  /\ hist.reportGap # NoGap => AtLeast(hist.reportGap, U32(ReportPeriod))
  /\ hist.pollGap # NoGap => AtLeast(hist.pollGap, U32(PollPeriod))

\* The report timer fired before the wrap and again after it.
C6_Witness ==
  /\ hist.reportAt.era = 1
  /\ hist.reportGap # NoGap
  /\ Gt32(hist.reportGap, hist.reportAt.ms)

\* C7 as claimed: when a poll compares a count c greater than the baseline,
\* the baseline becomes c, whatever happens to the modem's count meanwhile.
C7_BaselineIsComparedCount ==
  [][(pc = "baseline" /\ pc' # pc) => startSMS' = smsnum]_vars

ModemOps == {"fona.begin", "fona.getNumSMS", "fona.readSMS", "fona.getSMSSender",
             "fona.sendSMS"}

ModemOpIn(l) == \E i \in 1..Len(l) : l[i].op \in ModemOps \cup {"fonaSS.begin", "fonaSS.listen"}

\* C8: no modem operation happens before the first pass that reads a fix;
\* while fonaSetup is false the poll block and the report block do nothing;
\* setupFONA() is called at most once, and fonaSetup never returns to false.
C8_DeferredBringUp ==
  /\ [](/\ ~hist.everFix => ~fonaSetup /\ hist.setupCalls = 0 /\ ~ModemOpIn(log)
        /\ ~fonaSetup /\ pc # "halt" => ~ModemOpIn(log) /\ owner = "Sensor"
        /\ hist.setupCalls <= 1)
  /\ [][/\ fonaSetup => fonaSetup'
        /\ (~fonaSetup /\ pc \in {"gate", "report"} /\ pc' # pc) =>
             /\ pc' \in {"report", "alarm"}
             /\ UNCHANGED <<log, owner, gpsTimer, fonaTimer, startSMS, beeping, now>>]_vars

\* Before the bring-up a pass ends with both timers past their periods and a
\* message in the store, and has done nothing with the modem.
C8_Witness ==
  /\ ~fonaSetup /\ pc = "listen" /\ Len(log) > 0
  /\ TimerDue(Millis, gpsTimer, ReportPeriod)
  /\ TimerDue(Millis, fonaTimer, PollPeriod)
  /\ simCount > 0
  /\ ~ModemOpIn(log)

\* C9: every modem operation of a pass runs while the modem's port listens,
\* after a fonaSS.listen() or fonaSS.begin() with no gpsSS.listen() since;
\* the hand query and the parse of a pass run while the GPS port listens;
\* one port listens at a time.
C9_OwnerOfEachOperation ==
  /\ owner \in {"Sensor", "Modem"}
  /\ \A i \in 1..Len(log) :
       /\ log[i].op \in ModemOps =>
            /\ log[i].owner = "Modem"
            /\ \E j \in 1..(i - 1) :
                 /\ log[j].op \in {"fonaSS.listen", "fonaSS.begin"}
                 /\ \A k \in j..i : log[k].op # "gpsSS.listen"
       /\ log[i].op \in {"gpsSS.listen", "GPS.read", "GPS.parse"} => log[i].owner = "Sensor"
       /\ log[i].op \in {"fonaSS.listen", "fonaSS.begin"} => log[i].owner = "Modem"

\* A pass parsed a sentence, answered a command and sent the periodic report.
C9_Witness ==
  /\ pc = "alarm" /\ owner = "Modem"
  /\ Len(SendsIn(log)) = 2
  /\ \E i \in 1..Len(log) : log[i].op = "GPS.parse" /\ log[i].owner = "Sensor"

\* The places in l of the periodic report, of the poll's count and of the
\* reply to a command.
ReportsAt(l) == {i \in 1..Len(l) : l[i].op = "fona.sendSMS" /\ l[i].arg[1] = SendTo}
CountsAt(l) == {i \in 2..Len(l) : l[i].op = "fona.getNumSMS" /\ l[i - 1].op = "fonaSS.listen"}
RepliesAt(l) == {i \in 1..Len(l) : l[i].op = "fona.sendSMS" /\ l[i].arg[1] # SendTo}
SensorAt(l) == {i \in 1..Len(l) : l[i].op \in {"gpsSS.listen", "GPS.read", "GPS.parse"}}
PollAt(l) == CountsAt(l) \cup RepliesAt(l)
                \cup {i \in 1..Len(l) : l[i].op \in {"fona.readSMS", "fona.getSMSSender"}}
AlarmAt(l) == {i \in 1..Len(l) : l[i].op = "tone" /\ l[i].arg[1] = AlarmHz}

Before(S, T) == \A i \in S, j \in T : i < j

\* The place of a step of loop() in the order the amended C10 states.
Steps == <<"listen", "nmea", "wrap", "fix", "setup", "format", "gate", "count",
           "baseline", "read", "sender", "command", "report", "alarm", "halt">>

Rank(p) == CHOOSE i \in 1..Len(Steps) : Steps[i] = p

\* C10 as claimed: in a pass the periodic report is sent before the message
\* count is fetched and before the reply to a command is sent.
C10_ReportBeforePoll ==
  /\ Before(ReportsAt(log), CountsAt(log))
  /\ Before(ReportsAt(log), RepliesAt(log))

\* C10, amended: a pass runs the sensor query and parse, the fix update, the
\* poll timer and the command handling, the report timer and the periodic
\* report, and the alarm, in this order; the count is fetched and the reply
\* is sent before the periodic report.
C10_PollBeforeReport ==
  /\ [](/\ Before(SensorAt(log), PollAt(log) \cup ReportsAt(log) \cup AlarmAt(log))
        /\ Before(PollAt(log), ReportsAt(log) \cup AlarmAt(log))
        /\ Before(ReportsAt(log), AlarmAt(log)))
  /\ [][pc' # pc => Rank(pc') > Rank(pc) \/ pc' = "listen"]_vars

\* Both timers were due and a message waited: the pass answered the
\* command, then sent the periodic report, then sounded the alarm.
C10_Witness ==
  /\ pc = "listen"
  /\ hist.fired.gps /\ hist.fired.fona
  /\ \E i \in CountsAt(log), j \in RepliesAt(log), k \in ReportsAt(log), a \in AlarmAt(log) :
       i < j /\ j < k /\ k < a

\* A pass ends: loop() returns after the alarm block or at the failed parse.
PassEnds == pc # "listen" /\ pc' = "listen"

\* C11 as claimed: a pass in which beeping is true plays exactly one burst,
\* whatever its parse did, and a pass in which beeping is false plays none.
C11_BurstInEveryPass ==
  [][PassEnds =>
       /\ beeping' => Cardinality(AlarmAt(log')) = 1
       /\ ~beeping' => AlarmAt(log') = {}]_vars

\* C11, amended: a pass that gets past the parse and does not stop in
\* setupFONA() reaches the alarm block once; there it plays one burst of
\* four pulses when beeping is true and nothing when it is false.  A pass
\* whose parse fails returns before the alarm block and plays nothing.  The
\* only other tones are those of setupFONA(), in the pass of the first fix.
C11_BurstInEveryPassPastParse ==
  /\ [](/\ Cardinality(AlarmAt(log)) <= 1
        /\ \A i \in 1..Len(log) :
             log[i].op = "tone" /\ i \notin AlarmAt(log) =>
               /\ log[i].arg[1] \in {JingleHz, ErrorHz}
               /\ hist.setupCalls = 1
               /\ \E j \in 1..(i - 1) : log[j].op = "fona.begin")
  /\ [][/\ PassEnds => pc \in {"alarm", "nmea"}
        /\ (pc = "nmea" /\ PassEnds) => AlarmAt(log') = {}
        /\ (pc = "alarm" /\ PassEnds) =>
             /\ AlarmAt(log) = {}
             /\ IF beeping
                  THEN /\ log' = Append(log, Op("tone", owner, <<AlarmHz, PulseCount>>))
                       /\ now' = Later(now, U32(BurstMs))
                  ELSE log' = log /\ now' = now
        /\ (pc \in {"wrap", "fix", "format", "gate", "count", "baseline", "read",
                      "sender", "command", "report"} /\ pc' # pc) =>
             Rank(pc') > Rank(pc) /\ pc' # "halt"]_vars

\* The alarm is on and a pass whose parse failed has ended without a burst.
C11_Witness ==
  /\ pc = "listen" /\ beeping
  /\ Len(log) > 0 /\ log[Len(log)].op = "GPS.parse" /\ log[Len(log)].arg = <<"bad">>

\* C12: when fona.begin() fails, setupFONA() plays the four error pulses and
\* never returns: fonaSetup stays false, no step of loop() runs again, no
\* message is polled and no SMS is sent, and the fix, the timers, the
\* baseline and beeping never change again.
C12_FailedBringUpHalts ==
  /\ [](pc = "halt" =>
          /\ ~fonaSetup
          /\ Len(log) >= 2
          /\ log[Len(log) - 1] = Op("fona.begin", "Modem", <<FALSE>>)
          /\ log[Len(log)] = Op("tone", "Modem", <<ErrorHz, PulseCount>>)
          /\ SendsIn(log) = <<>> /\ PollAt(log) = {})
  /\ [][/\ (pc = "setup" /\ pc' # pc /\ ~fonaSetup') => pc' = "halt"
        /\ pc = "halt" =>
             UNCHANGED <<pc, fonaSetup, gpsFix, gpsPos, fix, gpsTimer, fonaTimer, startSMS,
                         beeping, owner, log, smsnum, replybuffer, phoneNum, coordinates,
                         curMsg, now>>]_vars

\* The sketch has stopped in setupFONA(); a received sentence and a stored
\* message wait, and neither is looked at.
C12_Witness ==
  /\ pc = "halt"
  /\ recvdflag
  /\ simCount > startSMS

\* C13 as claimed: in a pass whose poll fired, the GPS port listens again
\* when the alarm burst is played.
C13_SensorOwnsDuringBurst ==
  \A i \in AlarmAt(log) : hist.fired.fona => log[i].owner = "Sensor"

\* C13, amended: in a pass whose poll fired the modem's port keeps
\* listening for the rest of the pass, through the report block and the
\* alarm burst; the GPS port listens again only from the gpsSS.listen() that
\* starts the next pass, before that pass's query and parse.
C13_ModemOwnsUntilNextPass ==
  /\ [](/\ pc \in {"nmea", "wrap", "fix"} => owner = "Sensor"
        /\ (hist.fired.fona /\ pc # "nmea") => owner = "Modem"
        /\ \A i \in AlarmAt(log) : hist.fired.fona => log[i].owner = "Modem")
  /\ [][/\ (pc \in {"report", "alarm"} /\ pc' # pc /\ hist.fired.fona) =>
             owner = "Modem" /\ owner' = "Modem"
        /\ (pc = "listen" /\ pc' # pc) =>
             owner' = "Sensor" /\ log'[1] = Op("gpsSS.listen", "Sensor", <<>>)]_vars

\* A pass polled, answered a command and played the burst, all with the
\* modem's port listening, and has ended.
C13_Witness ==
  /\ pc = "listen" /\ owner = "Modem"
  /\ hist.fired.fona /\ RepliesAt(log) # {}
  /\ \E i \in AlarmAt(log) : log[i].owner = "Modem"

\* C14: the command branches run at most once in a poll, and, the modem's
\* count never decreasing, each time on a store index greater than every
\* index they ran on before, also after a poll whose readSMS or
\* getSMSSender failed.
C14_NoMessageTwice ==
  /\ [](Cardinality(RepliesAt(log)) <= 1)
  /\ [][(pc = "command" /\ pc' # pc) =>
          /\ RepliesAt(log) = {}
          /\ \A i \in hist.interpreted : smsnum > i
          /\ hist'.interpreted = hist.interpreted \cup {smsnum}]_vars

\* Message 1 was interpreted, message 2 never was (its fetch failed, or it
\* came together with message 3), and message 3 has now been interpreted.
C14_Witness ==
  /\ pc = "report"
  /\ hist.interpreted = {1, 3}
  /\ startSMS = 3
  /\ RepliesAt(log) # {}

\* C15: a pass whose parse fails ends there: it has sent no SMS and done
\* nothing with the modem, the GPS port listens, the fix, both timers, the
\* baseline, beeping and fonaSetup are as they were when the pass started,
\* and the next pass starts as any other.
C15_FailedParseChangesNothing ==
  [][/\ (pc \in {"listen", "nmea"} /\ pc' # pc) =>
          UNCHANGED <<gpsTimer, fonaTimer, startSMS, beeping, fonaSetup>>
     /\ (pc = "listen" /\ pc' # pc) => UNCHANGED <<gpsFix, gpsPos>>
     /\ (pc = "nmea" /\ pc' # pc /\ recvdflag /\ ~lastNMEA.ok) =>
          /\ pc' = "listen"
          /\ UNCHANGED <<gpsFix, gpsPos>>
          /\ owner' = "Sensor"
          /\ SendsIn(log') = <<>> /\ ~ModemOpIn(log')]_vars

\* A pass whose parse failed has ended with the fix and the alarm as they
\* were, while the report was due and a message waited.
C15_Witness ==
  /\ pc = "listen" /\ owner = "Sensor"
  /\ Len(log) > 0 /\ log[Len(log)] = Op("GPS.parse", "Sensor", <<"bad">>)
  /\ gpsFix /\ fonaSetup
  /\ TimerDue(Millis, gpsTimer, ReportPeriod)
  /\ simCount > startSMS

\* The text a pass sends for the location: the stored fix formatted, or the
\* no-fix text given.
LocationText(noFix) == IF gpsFix THEN FormatCoordinates(gpsPos) ELSE noFix

\* C16: the location text of a "gps" reply and of a periodic report is the
\* formatting of the fix as it stands after the pass's parse, sent only when
\* GPS.fix is true, and the no-fix text otherwise; the coordinates buffer is
\* never sent unwritten, and the reply and the report of a pass agree.
C16_LocationFromThisPass ==
  /\ [](/\ \A i \in ReportsAt(log) : log[i].arg[2] = LocationText(MsgWarnNoFix)
        /\ \A i \in RepliesAt(log) :
             /\ IsKeyword(curMsg.payload, <<"g","p","s">>) =>
                  log[i].arg[2] = LocationText(MsgNoFix)
             /\ log[i].arg[2] \notin {MsgBeepOn, MsgBeepOff, MsgInvalid} =>
                  log[i].arg[2] = LocationText(MsgNoFix)
        /\ \A i \in 1..Len(log) : log[i].op = "fona.sendSMS" => log[i].arg[2] # Unwritten
        /\ pc \in {"format", "setup"} => fix /\ gpsFix
        /\ pc \in {"gate", "count", "baseline", "read", "sender", "command", "report",
                    "alarm"} =>
             /\ fix = gpsFix
             /\ coordinates = IF fix THEN FormatCoordinates(gpsPos) ELSE Unwritten)
  /\ [][(gpsFix' # gpsFix \/ gpsPos' # gpsPos) => pc = "nmea" /\ SendsIn(log) = <<>>]_vars

\* A pass that read fix B answered "gps" and sent the report, both with the
\* text of B.
C16_Witness ==
  /\ pc = "alarm" /\ gpsPos = PosB /\ fix
  /\ hist.interpreted # {}
  /\ \E i \in RepliesAt(log), j \in ReportsAt(log) :
       log[i].arg[2] = TextB /\ log[j].arg[2] = TextB

\* C17: each fire of the report timer and each interpreted message makes one
\* send attempt; whether it fails or not, the step leaves the same timers,
\* baseline and beeping (the toggle of a "beep" included) and goes on to the
\* next block; after a failed report the next one is due a period later.
C17_FailedSendChangesNothing ==
  [][/\ (pc = "command" /\ pc' # pc) =>
          /\ log' = Append(log, log'[Len(log')])
          /\ log'[Len(log')].op = "fona.sendSMS"
          /\ beeping' = (IF IsKeyword(replybuffer, <<"b","e","e","p">>)
                           THEN ~beeping ELSE beeping)
          /\ pc' = "report"
          /\ UNCHANGED <<gpsTimer, fonaTimer, startSMS, fonaSetup, now>>
     /\ (pc = "report" /\ pc' # pc) =>
          /\ pc' = "alarm"
          /\ UNCHANGED <<fonaTimer, startSMS, fonaSetup, beeping, now>>
          /\ IF fonaSetup /\ Gt32(Elapsed(Millis, gpsTimer), U32(ReportPeriod))
               THEN /\ Len(log') = Len(log) + 2
                    /\ log'[Len(log')].op = "fona.sendSMS"
                    /\ SendsIn(log') = Append(SendsIn(log), log'[Len(log')])
                    /\ gpsTimer' = Millis
               ELSE log' = log /\ gpsTimer' = gpsTimer]_vars

\* The reply to a "beep" and the periodic report both failed in a pass: the
\* alarm is on all the same, and the report timer restarted.
C17_Witness ==
  /\ pc = "alarm" /\ beeping /\ hist.beeps = 1
  /\ gpsTimer = Millis
  /\ Len(SendsIn(log)) = 2
  /\ \A i \in 1..2 : ~SendsIn(log)[i].arg[3]

\* C19: the interrupt handler, wherever it comes in loop(), changes only
\* what GPS.read() keeps of the sensor's bytes: not the listening port, the
\* timers, the baseline, beeping, fonaSetup or the stored fix, and it does
\* nothing with the modem.  With the interrupt on, loop() makes no GPS.read()
\* of its own.
C19_HandlerOnlyCaptures ==
  /\ [](usingInterrupt /\ \A i \in 1..Len(log) : log[i].op # "GPS.read")
  /\ [][(pc' = pc /\ simCount' = simCount) =>
          UNCHANGED <<owner, gpsTimer, fonaTimer, startSMS, beeping, fonaSetup, gpsFix,
                      gpsPos, fix, coordinates, smsnum, replybuffer, phoneNum, curMsg,
                      log, now, usingInterrupt>>]_vars

\* The handler has received a sentence with fix B between the parse and the
\* poll of a pass that works with fix A.
C19_Witness ==
  /\ pc = "gate" /\ owner = "Sensor"
  /\ recvdflag /\ lastNMEA.id = "fixB"
  /\ gpsPos = PosA /\ fix /\ coordinates = TextA

\* C20 as claimed: the length that the poll lets fona.readSMS() copy does not
\* exceed what replybuffer holds, so the text fetched from a message of any
\* length up to it stays inside replybuffer.
C20_FetchFitsReplyBuffer ==
  pc = "sender" => Len(replybuffer) <= ReplyBufferSize

\* readSMS or getSMSSender failed on the message at index k in this pass.
FetchFailed(k) ==
  \E i \in 1..Len(log) :
    log[i].op \in {"fona.readSMS", "fona.getSMSSender"} /\ log[i].arg = <<k, FALSE>>

\* A pass gets past the parse: no new sentence, or one that parses.
PastParse == ParseSentence /\ pc' = "wrap"

\* A message that arrives alone while the count is at the baseline is
\* answered in the end, unless its fetch fails or another message arrives.
SingleMessageAnswered ==
  \A k \in 1..MaxSMSLive :
    (fonaSetup /\ startSMS = k - 1 /\ simCount = k)
      ~> (k \in hist.interpreted \/ FetchFailed(k) \/ simCount > k)

=============================================================================
